---- MODULE Spec2Model ----
(***************************************************************************)
(* Certificate text generator (TimPad/Certificat_hse).                     *)
(*                                                                         *)
(* Two revisions of the same Streamlit program are modelled side by side:  *)
(*   rev = "streamlit_app"  is src/streamlit_app.py                        *)
(*   rev = "test"           is src/test.py                                 *)
(* Each has load_reference_data (builds grade_mapping from the reference   *)
(* table), process_student_data (matches every student's three slots       *)
(* against grade_mapping) and main (uploads, load, button, process).       *)
(*                                                                         *)
(* Text is modelled as a sequence of one-character strings, so that        *)
(* strip(), capitalize(), str() and the f-string formatting are computed   *)
(* and not assumed.  The module is ASCII: the Russian literals of the      *)
(* source are written in English                                           *)
(*   'Udovletvoritel'no' / 'Horosho' / 'Otlichno'                          *)
(*        -> Satisfactory / Good / Excellent                               *)
(*   'Disciplina', 'Uroven'_ocenki', 'Opisanie_navykov'                    *)
(*        -> "Discipline", "Level", "Description"                          *)
(*   'Disciplina N', 'Ocenka 5 ballov Disciplina N', 'Nazvanie Discipliny N',*)
(*   'Itogovyj rezul'tat'                                                  *)
(*        -> "Discipline N", "Grade N", "ShortName N", "FinalResult"       *)
(***************************************************************************)
EXTENDS Naturals, Sequences, FiniteSets

VARIABLES
    rev,              \* which source file runs
    pc,               \* position of main()
    excel_file,       \* st.file_uploader: the student upload is present
    skills_file,      \* st.file_uploader: the reference upload is present
    button,           \* st.button("Process") is pressed in this run
    skills_columns,   \* skills_df.columns
    skills_df,        \* rows of the reference table (pd.read_excel)
    row_i,            \* number of reference rows consumed by iterrows()
    skills_row,       \* load_reference_data: the loop variable `row`
    grade_mapping,    \* the index under construction / returned
    error,            \* the exception caught by main(), or NoError
    df_columns,       \* df.columns of the student table
    n_students,       \* len(df)
    df,               \* student rows yielded by df.iterrows() so far
    row,              \* process_student_data: the loop variable `row`
    discipline_num,   \* process_student_data: the loop variable, 1..3
    student_results,  \* entries of the current student
    processed_pairs,  \* test.py: pairs already emitted for the student
    results,          \* final_result of every finished student
    processing_log,   \* the log lines, in order
    df_result         \* the returned table, or NoTable

vars == <<rev, pc, excel_file, skills_file, button, skills_columns, skills_df,
          row_i, skills_row, grade_mapping, error, df_columns, n_students, df,
          row, discipline_num, student_results, processed_pairs, results,
          processing_log, df_result>>

-----------------------------------------------------------------------------
(* Bounds of the model.                                                    *)

MaxRefRows == 2

MaxStudents == 2

-----------------------------------------------------------------------------
(* Text.                                                                   *)

\* A missing cell: pandas reads an empty Excel cell as NaN.
NaN == <<"NaN">>

IsNa(v) == v = NaN

nan_text == <<"n", "a", "n">>

\* str(v): text is itself, NaN prints as 'nan'.
Str(v) == IF IsNa(v) THEN nan_text ELSE v

Whitespace == {" ", "\n", "\t"}

RECURSIVE LStrip(_)
LStrip(s) ==
    IF s # <<>> /\ Head(s) \in Whitespace THEN LStrip(Tail(s)) ELSE s

RECURSIVE RStrip(_)
RStrip(s) ==
    IF s # <<>> /\ s[Len(s)] \in Whitespace
    THEN RStrip(SubSeq(s, 1, Len(s) - 1))
    ELSE s

\* str.strip()
Strip(s) == RStrip(LStrip(s))

Letters ==
    << <<"a","A">>, <<"c","C">>, <<"d","D">>, <<"e","E">>, <<"g","G">>,
       <<"h","H">>, <<"i","I">>, <<"k","K">>, <<"l","L">>, <<"m","M">>,
       <<"n","N">>, <<"o","O">>, <<"p","P">>, <<"q","Q">>, <<"r","R">>,
       <<"s","S">>, <<"t","T">>, <<"u","U">>, <<"v","V">>, <<"w","W">>,
       <<"x","X">>, <<"y","Y">> >>

Upper(c) ==
    IF \E i \in 1..Len(Letters) : Letters[i][1] = c
    THEN Letters[CHOOSE i \in 1..Len(Letters) : Letters[i][1] = c][2]
    ELSE c

Lower(c) ==
    IF \E i \in 1..Len(Letters) : Letters[i][2] = c
    THEN Letters[CHOOSE i \in 1..Len(Letters) : Letters[i][2] = c][1]
    ELSE c

\* str.capitalize(): first character upper case, the rest lower case.
Capitalize(s) ==
    [i \in 1..Len(s) |-> IF i = 1 THEN Upper(s[i]) ELSE Lower(s[i])]

RECURSIVE Join(_, _)
\* sep.join(parts)
Join(sep, parts) ==
    IF parts = <<>> THEN <<>>
    ELSE IF Len(parts) = 1 THEN parts[1]
    ELSE parts[1] \o sep \o Join(sep, Tail(parts))

Satisfactory == <<"S","a","t","i","s","f","a","c","t","o","r","y">>

Good == <<"G","o","o","d">>

Excellent == <<"E","x","c","e","l","l","e","n","t">>

Passed == <<"P","a","s","s","e","d">>

\* Mutant of valid_grades: "Passed" is taken for a grade label.
valid_grades_with_passed == {Satisfactory, Good, Excellent, Passed}

\* test.py: valid_grades / the literal list of load_reference_data
valid_grades == {Satisfactory, Good, Excellent}

-----------------------------------------------------------------------------
(* Dictionaries: a dict is a function on its set of keys.                  *)

EmptyDict == <<>>

Put(dict, k, v) ==
    [x \in (DOMAIN dict) \cup {k} |-> IF x = k THEN v ELSE dict[x]]

-----------------------------------------------------------------------------
(* load_reference_data                                                     *)

SkillsColumns == {"Discipline", "Level", "Description"}

\* streamlit_app.py: levels are stored under the keys '3', '4', '5'.
level_key_mapping ==
    [l \in {Satisfactory, Good, Excellent} |->
        IF l = Satisfactory THEN <<"3">>
        ELSE IF l = Good THEN <<"4">> ELSE <<"5">>]

\* streamlit_app.py, one iteration of `for _, row in skills_df.iterrows()`
\* with all three columns present.  The cells are used as read: no str(), no
\* strip(), no test for a missing cell.
LoadRowA(gm, r) ==
    LET discipline == r["Discipline"]
        level == r["Level"]
        description == r["Description"]
        gm1 == IF discipline \notin DOMAIN gm
               THEN Put(gm, discipline, EmptyDict) ELSE gm
    IN  IF level \in DOMAIN level_key_mapping
        THEN Put(gm1, discipline,
                 Put(gm1[discipline], level_key_mapping[level], description))
        ELSE gm1

\* test.py: a cell of an absent column reads as ''.
CellB(cols, r, c) == IF c \in cols THEN Strip(Str(r[c])) ELSE <<>>

\* test.py, one iteration of `for _, row in skills_df.iterrows()`.
LoadRowB(cols, gm, r) ==
    LET discipline == CellB(cols, r, "Discipline")
        level == CellB(cols, r, "Level")
        description == CellB(cols, r, "Description")
        gm1 == IF discipline \notin DOMAIN gm
               THEN Put(gm, discipline, EmptyDict) ELSE gm
    IN  IF discipline = <<>> \/ level = <<>> \/ description = <<>>
        THEN gm
        ELSE IF level \in valid_grades
             THEN Put(gm1, discipline, Put(gm1[discipline], level, description))
             ELSE gm1

\* The first column whose row['...'] raises KeyError in streamlit_app.py.
MissingColumn(cols) ==
    IF "Discipline" \notin cols THEN "Discipline"
    ELSE IF "Level" \notin cols THEN "Level"
    ELSE "Description"

NoError == [type |-> "none", column |-> "none"]

\* No table has been returned: a returned table has at least the result column.
NoTable == [columns |-> {}, rows |-> <<>>]

-----------------------------------------------------------------------------
(* The inputs of a run.                                                    *)

Math == <<"M","a","t","h">>

History == <<"H","i","s","t","o","r","y">>

SolvesLinearEquations ==
    <<"S","o","l","v","e","s"," ","l","i","n","e","a","r"," ","e","q","u","a","t","i","o","n","s">>

Knows == <<"K","n","o","w","s">>

Proves == <<"P","r","o","v","e","s">>

Dates == <<"D","a","t","e","s">>

\* A row of a table is a function from the table's columns to cells.
RefRow(cols, d, l, x) ==
    [c \in cols |-> IF c = "Discipline" THEN d ELSE IF c = "Level" THEN l ELSE x]

\* Cells of the reference tables tried exhaustively (SpecLoad): missing,
\* blank, padded and plain text.
RefCells(c) ==
    IF c = "Discipline" THEN {NaN, Math, <<" ">> \o Math}
    ELSE IF c = "Level" THEN {NaN, Good, Excellent, Passed}
    ELSE {NaN, <<" ">>, Knows, <<" ">> \o Proves}

RefRows(cols) ==
    {RefRow(cols, d, l, x) :
        d \in RefCells("Discipline"), l \in RefCells("Level"),
        x \in RefCells("Description")}

SeqsUpTo(S, n) == UNION {[1..k -> S] : k \in 0..n}

\* Reference tables of the whole-program runs (Spec), all columns present.
TableGood == <<RefRow(SkillsColumns, Math, Good, SolvesLinearEquations)>>

TableLevels ==
    <<RefRow(SkillsColumns, Math, Satisfactory, Knows),
      RefRow(SkillsColumns, Math, Excellent, Proves),
      RefRow(SkillsColumns, History, Passed, Dates)>>

TableEmpty == <<>>

\* A reference table without its description column.
TableNoDescription ==
    <<RefRow(SkillsColumns \ {"Description"}, Math, Good, NaN)>>

ReferenceSources ==
    {<<SkillsColumns, TableGood>>, <<SkillsColumns, TableLevels>>,
     <<SkillsColumns, TableEmpty>>,
     <<SkillsColumns \ {"Description"}, TableNoDescription>>}

\* Student columns: f"Disciplina {n}", f"Ocenka 5 ballov Disciplina {n}",
\* f"Nazvanie Discipliny {n}".
DisciplineCol(n) == <<"Discipline", n>>

GradeCol(n) == <<"Grade", n>>

ShortNameCol(n) == <<"ShortName", n>>

FinalResultCol == <<"FinalResult", 0>>

Slots == 1..3

ColsPlain == {DisciplineCol(n) : n \in Slots} \cup {GradeCol(n) : n \in Slots}

ColsShort == ColsPlain \cup {ShortNameCol(n) : n \in Slots}

ColsNoGrade3 == ColsPlain \ {GradeCol(3)}

DfColumnSets == {ColsPlain, ColsShort, ColsNoGrade3}

Slot(d, g, s) == [discipline |-> d, grade |-> g, short |-> s]

\* The cells a student's slot n may hold.
SlotCells(n) ==
    IF n = 1 THEN
        {Slot(Math, Good, <<"m","a","t","h">>),
         Slot(Math, Satisfactory, NaN),
         Slot(NaN, Good, <<"i","T">>)}
    ELSE IF n = 2 THEN
        {Slot(Math, Good, <<"m","a","t","h">>),
         Slot(Math, Excellent, <<" ","I","T"," ">>),
         Slot(Math, Passed, NaN)}
    ELSE
        {Slot(<<" ">> \o Math \o <<" ">>, Good, <<"m","a","t","h">>),
         Slot(Math, NaN, NaN)}

StudentRow(cols, s) ==
    [c \in cols |->
        IF c[1] = "Discipline" THEN s[c[2]].discipline
        ELSE IF c[1] = "Grade" THEN s[c[2]].grade
        ELSE s[c[2]].short]

StudentRows(cols) ==
    {StudentRow(cols, <<s1, s2, s3>>) :
        s1 \in SlotCells(1), s2 \in SlotCells(2), s3 \in SlotCells(3)}

NoRow == <<>>

-----------------------------------------------------------------------------
(* process_student_data                                                    *)

\* One processing_log.append(...): which f-string it is, the slot or count
\* it prints, and the text it quotes.
Line(kind, num, text) == [kind |-> kind, num |-> num, text |-> text]

\* The four header lines appended before the student loop.
HeaderLines(n, gm, cols) ==
    <<Line("start", n, <<>>), Line("reference_size", Cardinality(DOMAIN gm), <<>>),
      Line("reference_keys", Cardinality(DOMAIN gm), <<>>),
      Line("columns", Cardinality(cols), <<>>)>>

SlotState(sr, pp, log) == [student_results |-> sr, processed_pairs |-> pp, log |-> log]

\* streamlit_app.py: grade label -> key of the inner dict.
grade_column_mapping == level_key_mapping

\* streamlit_app.py: the label printed before the description.
FormattedDisciplineA(cols, r, n, full_discipline) ==
    IF ShortNameCol(n) \in cols
    THEN Capitalize(Strip(Str(r[ShortNameCol(n)])))
    ELSE full_discipline

\* streamlit_app.py: the body of `for discipline_num in range(1, 4)`.
SlotA(cols, gm, r, n, sr, log) ==
    IF DisciplineCol(n) \notin cols \/ GradeCol(n) \notin cols
    THEN SlotState(sr, {}, Append(log, Line("columns_not_found", n, <<>>)))
    ELSE
    LET full_discipline == Strip(Str(r[DisciplineCol(n)]))
        grade_value == r[GradeCol(n)]
        log1 == Append(log, Line("slot", n, full_discipline))
        clean_grade == Strip(Str(grade_value))
        log2 == Append(log1, Line("search", n, clean_grade))
        grade_key == grade_column_mapping[clean_grade]
        log3 == Append(log2, Line("grade_key", n, grade_key))
        found == full_discipline \in DOMAIN gm
        log4 == IF found
                THEN Append(log3, Line("exact_match", n, full_discipline))
                ELSE log3 \o <<Line("not_found", n, full_discipline),
                               Line("first_keys", n, <<>>)>>
        result_text == gm[full_discipline][grade_key]
        formatted_discipline == FormattedDisciplineA(cols, r, n, full_discipline)
        formatted_result == formatted_discipline \o <<":", "\n">> \o Str(result_text)
    IN  \* pd.isna(full_discipline) is never true: full_discipline is a str
        IF IsNa(grade_value)
        THEN SlotState(sr, {}, Append(log1, Line("skip_missing", n, <<>>)))
        ELSE IF clean_grade \notin DOMAIN grade_column_mapping
        THEN SlotState(sr, {}, Append(log2, Line("unknown_grade", n, clean_grade)))
        ELSE IF found /\ full_discipline # <<>>
        THEN IF grade_key \in DOMAIN gm[full_discipline]
             THEN SlotState(Append(sr, formatted_result), {},
                            Append(log4, Line("added", n, formatted_discipline)))
             ELSE SlotState(sr, {}, Append(log4, Line("no_text", n, clean_grade)))
        ELSE SlotState(sr, {}, log4 \o <<Line("not_found", n, full_discipline),
                                         Line("first_keys", n, <<>>)>>)

\* Mutant of IsDuplicate: the pair is never looked up in processed_pairs.
IsDuplicateNever(pair, pp) == FALSE

\* test.py: `if discipline_grade_pair in processed_pairs`
IsDuplicate(pair, pp) == pair \in pp

\* Mutant of processed_pairs_new: the set of the previous student is kept.
processed_pairs_kept(pp) == pp

\* test.py: `processed_pairs = set()` at the top of every student.
processed_pairs_new(pp) == {}

\* Mutant of NoDescription: the slot gives an entry without text and marks
\* its pair as emitted.
NoDescriptionEmitted(sr, pp, log, n, pair) ==
    SlotState(Append(sr, <<>>), pp \cup {pair}, Append(log, Line("added", n, <<>>)))

\* test.py: `if clean_grade not in grade_mapping[full_discipline]`.  The
\* f-string of its log line names an undefined variable: NameError, caught by
\* `except Exception`, which appends the error line; nothing else changes.
NoDescription(sr, pp, log, n, pair) ==
    SlotState(sr, pp, Append(log, Line("error", n, <<>>)))

\* test.py: the body of `for discipline_num in range(1, 4)`.
SlotB(cols, gm, r, n, sr, pp, log) ==
    IF DisciplineCol(n) \notin cols \/ GradeCol(n) \notin cols
    THEN SlotState(sr, pp, Append(log, Line("columns_not_found", n, <<>>)))
    ELSE
    LET full_discipline ==
            IF IsNa(r[DisciplineCol(n)]) THEN <<>>
            ELSE Strip(Str(r[DisciplineCol(n)]))
        grade_value == r[GradeCol(n)]
        clean_grade == Strip(Str(grade_value))
        discipline_grade_pair == <<full_discipline, clean_grade>>
        result_text == gm[full_discipline][clean_grade]
        formatted_result ==
            <<"-", " ">> \o full_discipline \o <<" ", "(">> \o clean_grade
                \o <<")", ":", " ">> \o result_text
    IN  IF full_discipline = <<>> \/ IsNa(grade_value)
        THEN SlotState(sr, pp, Append(log, Line("skip_missing", n, <<>>)))
        ELSE IF clean_grade \notin valid_grades
        THEN SlotState(sr, pp, Append(log, Line("unknown_grade", n, clean_grade)))
        ELSE IF IsDuplicate(discipline_grade_pair, pp)
        THEN SlotState(sr, pp, Append(log, Line("duplicate", n, full_discipline)))
        ELSE IF full_discipline \notin DOMAIN gm
        THEN SlotState(sr, pp, Append(log, Line("not_found", n, full_discipline)))
        ELSE IF clean_grade \notin DOMAIN gm[full_discipline]
        THEN NoDescription(sr, pp, log, n, discipline_grade_pair)
        ELSE SlotState(Append(sr, formatted_result),
                       pp \cup {discipline_grade_pair},
                       Append(log, Line("added", n, full_discipline)))

\* Mutant of Separator: both revisions join with a single newline.
SeparatorSingle(r) == <<"\n">>

\* The separator of "...".join(student_results).
Separator(r) == IF r = "streamlit_app" THEN <<"\n", "\n">> ELSE <<"\n">>

\* Mutant of FinalResult: only the last entry is kept.
FinalResultLast(r, sr) == IF sr # <<>> THEN sr[Len(sr)] ELSE <<>>

\* Mutant of FinalResult: a student without entries gets a placeholder text.
FinalResultPlaceholder(r, sr) ==
    IF sr # <<>> THEN Join(Separator(r), sr) ELSE <<"-">>

\* final_result = sep.join(student_results) if student_results else ""
FinalResult(r, sr) == IF sr # <<>> THEN Join(Separator(r), sr) ELSE <<>>

\* test.py: [col for col in df_result.columns if col.startswith('Nazvanie Discipliny ')]
columns_to_drop(cols) == {c \in cols : c[1] = "ShortName"}

\* df.copy() with the result column added (and, in test.py, the short-name
\* columns dropped).
ResultTable(r, cols, rows, res) ==
    LET kept == IF r = "test" THEN cols \ columns_to_drop(cols) ELSE cols
        out == kept \cup {FinalResultCol}
    IN  [columns |-> out,
         rows |-> [i \in 1..Len(rows) |->
                     [c \in out |-> IF c = FinalResultCol THEN res[i] ELSE rows[i][c]]]]

-----------------------------------------------------------------------------
(* main(): one run of the script.                                          *)

Revisions == {"streamlit_app", "test"}

InitCommon ==
    /\ rev \in Revisions
    /\ pc = "main"
    /\ row_i = 0
    /\ skills_row = NoRow
    /\ grade_mapping = EmptyDict
    /\ error = NoError
    /\ df = <<>>
    /\ row = NoRow
    /\ discipline_num = 0
    /\ student_results = <<>>
    /\ processed_pairs = {}
    /\ results = <<>>
    /\ processing_log = <<>>
    /\ df_result = NoTable

\* A run of the whole program on the reference sources and student tables above.
Init ==
    /\ InitCommon
    /\ excel_file \in BOOLEAN
    /\ skills_file \in BOOLEAN
    /\ button \in BOOLEAN
    /\ \E src \in ReferenceSources : skills_columns = src[1] /\ skills_df = src[2]
    /\ df_columns \in DfColumnSets
    /\ n_students \in 0..MaxStudents

\* Both uploads present, the button not pressed, and every reference table of
\* up to MaxRefRows rows over every subset of the columns.
InitLoad ==
    /\ InitCommon
    /\ excel_file = TRUE
    /\ skills_file = TRUE
    /\ button = FALSE
    /\ skills_columns \in SUBSET SkillsColumns
    /\ skills_df \in SeqsUpTo(RefRows(skills_columns), MaxRefRows)
    /\ df_columns = ColsPlain
    /\ n_students = 0

\* Mutant of Exhausted: the loop over the reference rows may stop at any row.
ExhaustedEarly(i, rows) == TRUE

\* `for _, row in skills_df.iterrows()` has no row left.
Exhausted(i, rows) == i = Len(rows)

\* `if excel_file and skills_file:` is false: only an st.info is shown.
NoUpload ==
    /\ pc = "main"
    /\ ~(excel_file /\ skills_file)
    /\ pc' = "done"
    /\ UNCHANGED <<rev, excel_file, skills_file, button, skills_columns, skills_df,
                   row_i, skills_row, grade_mapping, error, df_columns, n_students,
                   df, row, discipline_num, student_results, processed_pairs,
                   results, processing_log, df_result>>

\* load_reference_data is entered: skills_df is read, grade_mapping = {}.
LoadStart ==
    /\ pc = "main"
    /\ excel_file /\ skills_file
    /\ pc' = "load"
    /\ grade_mapping' = EmptyDict
    /\ row_i' = 0
    /\ UNCHANGED <<rev, excel_file, skills_file, button, skills_columns, skills_df,
                   skills_row, error, df_columns, n_students, df, row,
                   discipline_num, student_results, processed_pairs, results,
                   processing_log, df_result>>

\* One iteration of the loop over the reference rows.
LoadRow ==
    /\ pc = "load"
    /\ row_i < Len(skills_df)
    /\ rev = "streamlit_app" => skills_columns = SkillsColumns
    /\ skills_row' = skills_df[row_i + 1]
    /\ grade_mapping' =
          IF rev = "streamlit_app"
          THEN LoadRowA(grade_mapping, skills_df[row_i + 1])
          ELSE LoadRowB(skills_columns, grade_mapping, skills_df[row_i + 1])
    /\ row_i' = row_i + 1
    /\ UNCHANGED <<rev, pc, excel_file, skills_file, button, skills_columns,
                   skills_df, error, df_columns, n_students, df, row,
                   discipline_num, student_results, processed_pairs, results,
                   processing_log, df_result>>

\* streamlit_app.py: row['...'] of an absent column raises KeyError, which
\* leaves load_reference_data and is caught by main()'s `except Exception`.
LoadRaise ==
    /\ pc = "load"
    /\ row_i < Len(skills_df)
    /\ rev = "streamlit_app"
    /\ skills_columns # SkillsColumns
    /\ skills_row' = skills_df[row_i + 1]
    /\ error' = [type |-> "KeyError", column |-> MissingColumn(skills_columns)]
    /\ pc' = "failed"
    /\ UNCHANGED <<rev, excel_file, skills_file, button, skills_columns, skills_df,
                   row_i, grade_mapping, df_columns, n_students, df, row,
                   discipline_num, student_results, processed_pairs, results,
                   processing_log, df_result>>

\* `return grade_mapping`: every row has been consumed.
LoadReturn ==
    /\ pc = "load"
    /\ Exhausted(row_i, skills_df)
    /\ pc' = "loaded"
    /\ UNCHANGED <<rev, excel_file, skills_file, button, skills_columns, skills_df,
                   row_i, skills_row, grade_mapping, error, df_columns, n_students,
                   df, row, discipline_num, student_results, processed_pairs,
                   results, processing_log, df_result>>

\* `if st.button(...)` is false: the run ends after the previews.
NoButton ==
    /\ pc = "loaded"
    /\ ~button
    /\ pc' = "done"
    /\ UNCHANGED <<rev, excel_file, skills_file, button, skills_columns, skills_df,
                   row_i, skills_row, grade_mapping, error, df_columns, n_students,
                   df, row, discipline_num, student_results, processed_pairs,
                   results, processing_log, df_result>>

\* process_student_data is entered: results = [], the header lines are logged.
ProcessStart ==
    /\ pc = "loaded"
    /\ button
    /\ pc' = "student"
    /\ results' = <<>>
    /\ processing_log' = HeaderLines(n_students, grade_mapping, df_columns)
    /\ UNCHANGED <<rev, excel_file, skills_file, button, skills_columns, skills_df,
                   row_i, skills_row, grade_mapping, error, df_columns, n_students,
                   df, row, discipline_num, student_results, processed_pairs,
                   df_result>>

\* `for index, row in df.iterrows()` yields the next student.
NextStudent ==
    /\ pc = "student"
    /\ Len(df) < n_students
    /\ \E r \in StudentRows(df_columns) :
          /\ row' = r
          /\ df' = Append(df, r)
    /\ student_results' = <<>>
    /\ processed_pairs' = processed_pairs_new(processed_pairs)
    /\ processing_log' = Append(processing_log, Line("student", Len(df) + 1, <<>>))
    /\ discipline_num' = 1
    /\ pc' = "slot"
    /\ UNCHANGED <<rev, excel_file, skills_file, button, skills_columns, skills_df,
                   row_i, skills_row, grade_mapping, error, df_columns, n_students,
                   results, df_result>>

\* One iteration of `for discipline_num in range(1, 4)`.
ProcessSlot ==
    /\ pc = "slot"
    /\ LET s == IF rev = "streamlit_app"
                THEN SlotA(df_columns, grade_mapping, row, discipline_num,
                           student_results, processing_log)
                ELSE SlotB(df_columns, grade_mapping, row, discipline_num,
                           student_results, processed_pairs, processing_log)
       IN  /\ student_results' = s.student_results
           /\ processed_pairs' = s.processed_pairs
           /\ processing_log' = s.log
    /\ IF discipline_num < 3
       THEN discipline_num' = discipline_num + 1 /\ pc' = "slot"
       ELSE discipline_num' = discipline_num /\ pc' = "join"
    /\ UNCHANGED <<rev, excel_file, skills_file, button, skills_columns, skills_df,
                   row_i, skills_row, grade_mapping, error, df_columns, n_students,
                   df, row, results, df_result>>

\* The student's entries are joined and appended to results.
FinishStudent ==
    /\ pc = "join"
    /\ LET final_result == FinalResult(rev, student_results)
       IN  /\ results' = Append(results, final_result)
           /\ processing_log' =
                 Append(processing_log,
                        IF rev = "test" /\ final_result = <<>>
                        THEN Line("final_empty", Len(df), <<>>)
                        ELSE Line("final", Len(df), final_result))
    /\ pc' = "student"
    /\ UNCHANGED <<rev, excel_file, skills_file, button, skills_columns, skills_df,
                   row_i, skills_row, grade_mapping, error, df_columns, n_students,
                   df, row, discipline_num, student_results, processed_pairs,
                   df_result>>

\* The loop is over: the result table is built and returned with the log.
ProcessReturn ==
    /\ pc = "student"
    /\ Len(df) = n_students
    /\ df_result' = ResultTable(rev, df_columns, df, results)
    /\ processing_log' =
          IF rev = "test" /\ columns_to_drop(df_columns) # {}
          THEN processing_log \o <<Line("done", n_students, <<>>),
                                   Line("dropped", Cardinality(columns_to_drop(df_columns)), <<>>)>>
          ELSE Append(processing_log, Line("done", n_students, <<>>))
    /\ pc' = "done"
    /\ UNCHANGED <<rev, excel_file, skills_file, button, skills_columns, skills_df,
                   row_i, skills_row, grade_mapping, error, df_columns, n_students,
                   df, row, discipline_num, student_results, processed_pairs,
                   results>>

Next ==
    \/ NoUpload
    \/ LoadStart
    \/ LoadRow
    \/ LoadRaise
    \/ LoadReturn
    \/ NoButton
    \/ ProcessStart
    \/ NextStudent
    \/ ProcessSlot
    \/ FinishStudent
    \/ ProcessReturn

Spec == Init /\ [][Next]_vars

NextLoad ==
    \/ LoadStart
    \/ LoadRow
    \/ LoadRaise
    \/ LoadReturn
    \/ NoButton

SpecLoad == InitLoad /\ [][NextLoad]_vars

-----------------------------------------------------------------------------
(* Reading the index.                                                      *)

NoEntry == <<"no entry">>

\* The inner key under which a revision stores a grade label.
LevelKey(r, grade) ==
    IF r = "streamlit_app"
    THEN IF grade \in DOMAIN grade_column_mapping
         THEN grade_column_mapping[grade] ELSE NoEntry
    ELSE grade

\* grade_mapping[discipline][key of grade] as process_student_data reads it,
\* NoEntry when either key is absent.
Lookup(r, gm, discipline, grade) ==
    IF discipline \in DOMAIN gm /\ LevelKey(r, grade) \in DOMAIN gm[discipline]
    THEN gm[discipline][LevelKey(r, grade)]
    ELSE NoEntry

\* A cell that holds text: neither missing nor blank.
NonEmpty(v) == ~IsNa(v) /\ Strip(v) # <<>>

\* The three recognised grade labels of the specification.
RecognisedGrades == {Satisfactory, Good, Excellent}

\* A reference row with a recognised level and non-empty discipline and
\* description.
ValidRefRow(r) ==
    /\ r["Level"] \in RecognisedGrades
    /\ NonEmpty(r["Discipline"])
    /\ NonEmpty(r["Description"])

\* The key a reference row carries: (trimmed discipline, level).
RefKey(r) == <<Strip(Str(r["Discipline"])), r["Level"]>>

\* The (discipline key, level key) entries of the index.
Entries(gm) ==
    {e \in (DOMAIN gm) \X (UNION {DOMAIN gm[y] : y \in DOMAIN gm}) :
        e[2] \in DOMAIN gm[e[1]]}

Returned == pc = "loaded" /\ skills_columns = SkillsColumns

-----------------------------------------------------------------------------
(* Claims about load_reference_data, checked under SpecLoad.               *)

\* C1 (as claimed, read in the code's favour: text is compared up to
\* surrounding whitespace, and a row is looked at only when no later row
\* carries its key): once load_reference_data has returned, every reference
\* row with a recognised level and non-empty discipline and description is
\* found in the index under (its trimmed discipline, its level), with its
\* description, in both revisions.
C1_EveryValidRowIsLookedUp ==
    Returned =>
        \A i \in 1..Len(skills_df) :
            ( /\ ValidRefRow(skills_df[i])
              /\ \A k \in (i + 1)..Len(skills_df) :
                    ~(ValidRefRow(skills_df[k]) /\ RefKey(skills_df[k]) = RefKey(skills_df[i])) )
            => Strip(Str(Lookup(rev, grade_mapping,
                                RefKey(skills_df[i])[1], RefKey(skills_df[i])[2])))
                  = Strip(skills_df[i]["Description"])

\* C2 (as claimed, text compared up to surrounding whitespace): when two valid
\* rows carry the same (discipline, level) key with different descriptions, the
\* returned index holds the description of the later one under that key and
\* has exactly one entry for the key.
C2_LastWriteWins ==
    Returned =>
        \A i \in 1..Len(skills_df) : \A j \in 1..Len(skills_df) :
            ( /\ i < j
              /\ ValidRefRow(skills_df[i]) /\ ValidRefRow(skills_df[j])
              /\ RefKey(skills_df[i]) = RefKey(skills_df[j])
              /\ Strip(skills_df[i]["Description"]) # Strip(skills_df[j]["Description"])
              /\ \A k \in (j + 1)..Len(skills_df) :
                    ~(ValidRefRow(skills_df[k]) /\ RefKey(skills_df[k]) = RefKey(skills_df[j])) )
            =>
            ( /\ Strip(Str(Lookup(rev, grade_mapping,
                                  RefKey(skills_df[j])[1], RefKey(skills_df[j])[2])))
                    = Strip(skills_df[j]["Description"])
              /\ Cardinality({e \in Entries(grade_mapping) :
                                /\ Strip(Str(e[1])) = RefKey(skills_df[j])[1]
                                /\ e[2] = LevelKey(rev, RefKey(skills_df[j])[2])}) = 1 )

\* C9 (as claimed): a reference row whose level is not recognised, or whose
\* discipline or description is missing, leaves the index as it was, and the
\* loop goes on to the next row.
C9_InvalidRowLeavesIndexUnchanged ==
    [][ ( /\ pc = "load"
          /\ skills_columns = SkillsColumns
          /\ row_i < Len(skills_df)
          /\ ~ValidRefRow(skills_df[row_i + 1]) )
        => ( /\ grade_mapping' = grade_mapping
             /\ row_i' = row_i + 1
             /\ pc' = "load" ) ]_vars

-----------------------------------------------------------------------------
(* Reading a student's row.                                                *)

HasSlotColumns(cols, n) == DisciplineCol(n) \in cols /\ GradeCol(n) \in cols

\* The slot's discipline and grade as text, surrounding whitespace trimmed.
SlotDiscipline(r, n) == Strip(Str(r[DisciplineCol(n)]))

SlotGrade(r, n) == Strip(Str(r[GradeCol(n)]))

\* The slot holds a discipline and a grade.
SlotFilled(cols, r, n) ==
    /\ HasSlotColumns(cols, n)
    /\ ~IsNa(r[DisciplineCol(n)])
    /\ ~IsNa(r[GradeCol(n)])

\* The index text for the slot's (discipline, grade), NoEntry when there is none.
SlotText(r0, gm, cols, r, n) ==
    IF HasSlotColumns(cols, n)
    THEN Lookup(r0, gm, SlotDiscipline(r, n), SlotGrade(r, n))
    ELSE NoEntry

\* The slot resolves in the index: it has a grade, the grade is a recognised
\* label, and the index has text for the slot's discipline and grade.
SlotResolves(r0, gm, cols, r, n) ==
    /\ HasSlotColumns(cols, n)
    /\ ~IsNa(r[GradeCol(n)])
    /\ SlotGrade(r, n) \in RecognisedGrades
    /\ SlotDiscipline(r, n) # <<>>
    /\ SlotText(r0, gm, cols, r, n) # NoEntry

\* The label of a slot's entry in streamlit_app.py.
SlotLabel(cols, r, n) ==
    IF ShortNameCol(n) \in cols
    THEN Capitalize(Strip(Str(r[ShortNameCol(n)])))
    ELSE SlotDiscipline(r, n)

\* The entry a resolved slot contributes.
SlotEntry(r0, gm, cols, r, n) ==
    IF r0 = "streamlit_app"
    THEN SlotLabel(cols, r, n) \o <<":", "\n">> \o Str(SlotText(r0, gm, cols, r, n))
    ELSE <<"-", " ">> \o SlotDiscipline(r, n) \o <<" ", "(">> \o SlotGrade(r, n)
            \o <<")", ":", " ">> \o Str(SlotText(r0, gm, cols, r, n))

RECURSIVE ResolvedEntries(_, _, _, _, _)
\* The entries of the resolved slots n..3, in slot order.
ResolvedEntries(r0, gm, cols, r, n) ==
    IF n > 3 THEN <<>>
    ELSE (IF SlotResolves(r0, gm, cols, r, n)
          THEN <<SlotEntry(r0, gm, cols, r, n)>> ELSE <<>>)
         \o ResolvedEntries(r0, gm, cols, r, n + 1)

\* s contains sub as a substring.
Contains(s, sub) ==
    \E k \in 0..Len(s) :
        k + Len(sub) <= Len(s) /\ SubSeq(s, k + 1, k + Len(sub)) = sub

\* Where sub first starts in s.
FirstIndex(s, sub) ==
    CHOOSE k \in 1..(Len(s) + 1) :
        /\ SubSeq(s, k, k + Len(sub) - 1) = sub
        /\ \A j \in 1..(k - 1) : SubSeq(s, j, j + Len(sub) - 1) # sub

\* The lines logged for the current student: those after its "student" line.
StudentLog(log) ==
    LET last == CHOOSE k \in 1..Len(log) :
                    /\ log[k].kind = "student"
                    /\ \A j \in (k + 1)..Len(log) : log[j].kind # "student"
    IN  SubSeq(log, last + 1, Len(log))

\* How many entries of sr are entries of slots of row r holding the pair.
CountEntries(r0, gm, cols, r, sr, pair) ==
    Cardinality({k \in 1..Len(sr) :
        \E n \in Slots :
            /\ SlotFilled(cols, r, n)
            /\ <<SlotDiscipline(r, n), SlotGrade(r, n)>> = pair
            /\ SlotText(r0, gm, cols, r, n) # NoEntry
            /\ sr[k] = SlotEntry(r0, gm, cols, r, n)})

\* Slots m < n of row r hold the same (discipline, grade) pair.
SamePair(cols, r, m, n) ==
    /\ m < n
    /\ SlotFilled(cols, r, m) /\ SlotFilled(cols, r, n)
    /\ SlotDiscipline(r, m) = SlotDiscipline(r, n)
    /\ SlotGrade(r, m) = SlotGrade(r, n)

-----------------------------------------------------------------------------
(* Claims about process_student_data, checked under Spec.                  *)

MathSolvesLinearEquations ==
    <<"M","a","t","h",":","\n","S","o","l","v","e","s"," ","l","i","n","e","a","r"," ","e","q","u","a","t","i","o","n","s">>

\* C3: in streamlit_app.py the final result of every finished student is the
\* entries of the slots that resolved in the index, in slot order, joined by a
\* double newline, each entry being "<label>:\n<description>"; with the
\* reference {("Math","Good","Solves linear equations")}, no short-name column
\* and ("Math","Good") in slot 1 as the only resolved slot, the result is
\* exactly "Math:\nSolves linear equations".
C3_ResultIsJoinedEntries ==
    rev = "streamlit_app" =>
        \A i \in 1..Len(results) :
            /\ results[i] =
                  Join(<<"\n", "\n">>, ResolvedEntries(rev, grade_mapping, df_columns, df[i], 1))
            /\ ( /\ skills_df = TableGood
                 /\ \A n \in Slots : ShortNameCol(n) \notin df_columns
                 /\ df[i][DisciplineCol(1)] = Math /\ df[i][GradeCol(1)] = Good
                 /\ \A n \in 2..3 : ~SlotResolves(rev, grade_mapping, df_columns, df[i], n) )
               => results[i] = MathSolvesLinearEquations

\* C3 witness: the single-slot scenario has produced its result, and another
\* student has a result made of three entries.
C3_Witness ==
    /\ rev = "streamlit_app"
    /\ skills_df = TableGood
    /\ df_columns = ColsPlain
    /\ Len(results) = 2
    /\ results[1] = MathSolvesLinearEquations
    /\ Len(ResolvedEntries(rev, grade_mapping, df_columns, df[2], 1)) = 3

\* C4 (as claimed): in test.py, when the slots of a student have all been
\* visited, a (discipline, grade) pair fed in two or three slots has exactly
\* one entry in the student's result.
C4_ExactlyOneEntryPerRepeatedPair ==
    (rev = "test" /\ pc = "join") =>
        \A m \in Slots : \A n \in Slots :
            SamePair(df_columns, row, m, n) =>
                CountEntries(rev, grade_mapping, df_columns, row, student_results,
                             <<SlotDiscipline(row, n), SlotGrade(row, n)>>) = 1

\* C4 (amended): in test.py a pair fed in two or three slots has exactly one
\* entry when the index resolves it and none otherwise, never two; when it
\* resolves, each later occurrence is logged as a duplicate.
C4_AtMostOneEntryPerRepeatedPair ==
    (rev = "test" /\ pc = "join") =>
        \A m \in Slots : \A n \in Slots :
            SamePair(df_columns, row, m, n) =>
                LET pair == <<SlotDiscipline(row, n), SlotGrade(row, n)>>
                    count == CountEntries(rev, grade_mapping, df_columns, row,
                                          student_results, pair)
                IN  IF SlotResolves(rev, grade_mapping, df_columns, row, n)
                    THEN /\ count = 1
                         /\ \E k \in 1..Len(StudentLog(processing_log)) :
                               /\ StudentLog(processing_log)[k].kind = "duplicate"
                               /\ StudentLog(processing_log)[k].num = n
                    ELSE count = 0

\* C4 witness: a resolved pair sits in all three slots of the student.
C4_Witness ==
    /\ rev = "test"
    /\ pc = "join"
    /\ SamePair(df_columns, row, 1, 2)
    /\ SamePair(df_columns, row, 2, 3)
    /\ SlotResolves(rev, grade_mapping, df_columns, row, 1)
    /\ Len(student_results) = 1

\* C5 (as claimed, for a pair the index resolves): in streamlit_app.py, when
\* the slots of a student have all been visited, a (discipline, grade) pair fed
\* in two or three slots has exactly one entry in the student's result.
C5_ExactlyOneEntryPerRepeatedPair ==
    (rev = "streamlit_app" /\ pc = "join") =>
        \A m \in Slots : \A n \in Slots :
            ( /\ SamePair(df_columns, row, m, n)
              /\ SlotResolves(rev, grade_mapping, df_columns, row, n) )
            => CountEntries(rev, grade_mapping, df_columns, row, student_results,
                            <<SlotDiscipline(row, n), SlotGrade(row, n)>>) = 1

\* Student i has the same discipline with Satisfactory in slot 1 and Excellent
\* in slot 2, both resolved by the index.
BestGradeCase(i) ==
    /\ SlotFilled(df_columns, df[i], 1) /\ SlotFilled(df_columns, df[i], 2)
    /\ SlotDiscipline(df[i], 1) = SlotDiscipline(df[i], 2)
    /\ SlotGrade(df[i], 1) = Satisfactory
    /\ SlotGrade(df[i], 2) = Excellent
    /\ SlotResolves(rev, grade_mapping, df_columns, df[i], 1)
    /\ SlotResolves(rev, grade_mapping, df_columns, df[i], 2)

SatisfactoryText(i) == Str(SlotText(rev, grade_mapping, df_columns, df[i], 1))

ExcellentText(i) == Str(SlotText(rev, grade_mapping, df_columns, df[i], 2))

\* C6 (as claimed): with Satisfactory in slot 1 and Excellent in slot 2 for the
\* same discipline, the final result contains the Excellent-level description
\* and not the Satisfactory-level one.
C6_BestGradeWins ==
    \A i \in 1..Len(results) :
        BestGradeCase(i) =>
            /\ Contains(results[i], ExcellentText(i))
            /\ ~Contains(results[i], SatisfactoryText(i))

\* C6 (amended): in that case the final result contains both descriptions, the
\* Satisfactory-level one (slot 1) before the Excellent-level one (slot 2).
C6_BothGradesKept ==
    \A i \in 1..Len(results) :
        BestGradeCase(i) =>
            /\ Contains(results[i], SatisfactoryText(i))
            /\ Contains(results[i], ExcellentText(i))
            /\ FirstIndex(results[i], SatisfactoryText(i))
                  < FirstIndex(results[i], ExcellentText(i))

\* C6 witness: such a student has been finished.
C6_Witness ==
    /\ Len(results) >= 1
    /\ BestGradeCase(1)
    /\ results[1] # <<>>

\* The slot's (discipline, grade) has no text in the index.
SlotAbsent(r0, gm, cols, r, n) == SlotText(r0, gm, cols, r, n) = NoEntry

\* C7: a student whose three slots all reference pairs absent from the index
\* gets the empty string as final result, and no exception has been raised, in
\* both revisions.
C7_AllAbsentGivesEmptyResult ==
    \A i \in 1..Len(results) :
        (\A n \in Slots : SlotAbsent(rev, grade_mapping, df_columns, df[i], n))
        => (results[i] = <<>> /\ error = NoError /\ pc # "failed")

\* C7 witness: the index is not empty, the three slots of student 1 are filled
\* and none is in the index, and the student has its result.
C7_Witness ==
    /\ Len(results) >= 1
    /\ Entries(grade_mapping) # {}
    /\ \A n \in Slots :
          /\ SlotFilled(df_columns, df[1], n)
          /\ SlotAbsent(rev, grade_mapping, df_columns, df[1], n)
    /\ results[1] = <<>>

\* The slot about to be visited holds a grade label that is not recognised, for
\* a discipline of the index.
UnknownGradeSlot ==
    /\ pc = "slot"
    /\ SlotFilled(df_columns, row, discipline_num)
    /\ SlotGrade(row, discipline_num) \notin RecognisedGrades
    /\ SlotDiscipline(row, discipline_num) \in DOMAIN grade_mapping

\* C8: visiting a slot with an unrecognised grade label adds no entry, appends
\* lines ending with the unknown-grade line to the log, leaves the entries of
\* the other slots and the results of the other students as they are, and
\* raises nothing.
C8_UnknownGradeSkipped ==
    [][ UnknownGradeSlot =>
          /\ student_results' = student_results
          /\ results' = results
          /\ processed_pairs' = processed_pairs
          /\ error' = error
          /\ pc' \in {"slot", "join"}
          /\ Len(processing_log') > Len(processing_log)
          /\ SubSeq(processing_log', 1, Len(processing_log)) = processing_log
          /\ processing_log'[Len(processing_log')] =
                Line("unknown_grade", discipline_num, SlotGrade(row, discipline_num))
          /\ \A k \in (Len(processing_log) + 1)..Len(processing_log') :
                processing_log'[k].kind \notin {"added", "error"} ]_vars

\* C8 witness: slot 2 held "Passed" and has just been skipped, while slot 1 of
\* the same student gave an entry and an earlier student has a result.
C8_Witness ==
    /\ pc = "slot"
    /\ discipline_num = 3
    /\ SlotGrade(row, 2) = Passed
    /\ SlotDiscipline(row, 2) \in DOMAIN grade_mapping
    /\ processing_log[Len(processing_log)].kind = "unknown_grade"
    /\ Len(student_results) = 1
    /\ Len(results) = 1
    /\ results[1] # <<>>

\* Some slot of the student table lacks its discipline or its grade column.
StudentColumnMissing == \E n \in Slots : ~HasSlotColumns(df_columns, n)

\* C10 (as claimed): when a column of the reference source is absent, the load
\* ends in an error naming a missing column and returns no index; when a slot
\* column of the student source is absent, no output rows are returned.
C10_MissingColumnAborts ==
    /\ ( /\ skills_columns # SkillsColumns
         /\ excel_file /\ skills_file
         /\ pc \notin {"main", "load"} )
       => ( /\ pc = "failed"
            /\ error.type # "none"
            /\ error.column \in SkillsColumns \ skills_columns )
    /\ StudentColumnMissing => df_result = NoTable

-----------------------------------------------------------------------------
(* Claims about the returned table, isolation of students, skipped slots,  *)
(* the order of load and matching, and labels; checked under Spec.         *)

\* The short display-name helper columns of a student table.
ShortNameColumns(cols) == {ShortNameCol(n) : n \in Slots} \cap cols

\* C11 (as claimed): when process_student_data returns, the returned table has
\* one row per input row, in input order, each with the input row's fields
\* unchanged plus the final-result field, it has no short display-name column,
\* in both revisions, and the input table is left as it was.
C11_OutputIsInputPlusResult ==
    [][ (df_result = NoTable /\ df_result' # NoTable) =>
          /\ df' = df
          /\ df_columns' = df_columns
          /\ Len(df_result'.rows) = Len(df)
          /\ df_result'.columns \cap ShortNameColumns(df_columns) = {}
          /\ df_result'.columns =
                (df_columns \ ShortNameColumns(df_columns)) \cup {FinalResultCol}
          /\ \A i \in 1..Len(df) :
                /\ DOMAIN df_result'.rows[i] = df_result'.columns
                /\ df_result'.rows[i][FinalResultCol] = results[i]
                /\ \A c \in df_columns \ ShortNameColumns(df_columns) :
                      df_result'.rows[i][c] = df[i][c] ]_vars

\* Slot n of row r gives an entry: it resolves in the index and, in test.py,
\* has a discipline cell and is the first slot of the row with its pair.
Emits(r0, gm, cols, r, n) ==
    /\ SlotResolves(r0, gm, cols, r, n)
    /\ r0 = "test" =>
          /\ ~IsNa(r[DisciplineCol(n)])
          /\ \A m \in 1..(n - 1) :
                ~( /\ SlotResolves(r0, gm, cols, r, m)
                   /\ ~IsNa(r[DisciplineCol(m)])
                   /\ SlotDiscipline(r, m) = SlotDiscipline(r, n)
                   /\ SlotGrade(r, m) = SlotGrade(r, n) )

RECURSIVE RowEntries(_, _, _, _, _)
\* The entries of slots 1..n of row r, computed from the row and the index alone.
RowEntries(r0, gm, cols, r, n) ==
    IF n = 0 THEN <<>>
    ELSE IF Emits(r0, gm, cols, r, n)
         THEN Append(RowEntries(r0, gm, cols, r, n - 1), SlotEntry(r0, gm, cols, r, n))
         ELSE RowEntries(r0, gm, cols, r, n - 1)

\* The final result of row r as a function of the row and the index alone.
RowResult(r0, gm, cols, r) ==
    Join(IF r0 = "streamlit_app" THEN <<"\n", "\n">> ELSE <<"\n">>,
         RowEntries(r0, gm, cols, r, 3))

\* C12: the final result of every student is a function of the student's own
\* row and of the index, whatever the other rows of the batch are and wherever
\* the row stands (equal rows of a batch have equal results, so the set of
\* emitted pairs of one student never suppresses an entry of another), and
\* the index is the same before and after every step of the matching.
C12_ResultDependsOnRowAndIndex ==
    [][ /\ pc \in {"loaded", "student", "slot", "join"} => grade_mapping' = grade_mapping
        /\ \A i \in 1..Len(results') :
              results'[i] = RowResult(rev, grade_mapping', df_columns', df'[i])
        /\ \A i \in 1..Len(results') : \A j \in 1..Len(results') :
              df'[i] = df'[j] => results'[i] = results'[j] ]_vars

\* C12 witness: in test.py two students with the same row have both been
\* finished, and the second one has the entries the first one emitted.
C12_Witness ==
    /\ rev = "test"
    /\ pc = "done"
    /\ Len(results) = 2
    /\ df[1] = df[2]
    /\ results[2] # <<>>
    /\ Entries(grade_mapping) # {}

\* A cell that is absent or blank.
Blank(v) == IsNa(v) \/ Strip(v) = <<>>

\* The slot about to be visited has its columns, and its discipline cell or
\* its grade cell is absent or blank.
MissingFieldSlot ==
    /\ pc = "slot"
    /\ HasSlotColumns(df_columns, discipline_num)
    /\ \/ Blank(row[DisciplineCol(discipline_num)])
       \/ Blank(row[GradeCol(discipline_num)])

\* C13 (as claimed): in both revisions, visiting a slot whose discipline cell
\* or grade cell is absent or blank ends at the missing-field check: the log
\* grows by lines that end with the missing-field skip line and hold no line
\* of grade validation or index lookup, and no entry is added.
C13_MissingFieldSkipped ==
    [][ MissingFieldSlot =>
          /\ student_results' = student_results
          /\ processed_pairs' = processed_pairs
          /\ Len(processing_log') > Len(processing_log)
          /\ SubSeq(processing_log', 1, Len(processing_log)) = processing_log
          /\ processing_log'[Len(processing_log')] =
                Line("skip_missing", discipline_num, <<>>)
          /\ \A k \in (Len(processing_log) + 1)..Len(processing_log') :
                processing_log'[k].kind \in {"slot", "skip_missing"} ]_vars

\* Slot n of row r names a discipline of the index with a recognised grade
\* for which the index has no description.
NoDescriptionFor(gm, cols, r, n) ==
    /\ SlotFilled(cols, r, n)
    /\ SlotDiscipline(r, n) \in DOMAIN gm
    /\ SlotGrade(r, n) \in RecognisedGrades
    /\ SlotText("test", gm, cols, r, n) = NoEntry

\* C14: in test.py, visiting a slot whose discipline is in the index without a
\* description for the slot's grade (the one error a slot raises) adds no
\* entry and no pair to the set of emitted pairs and appends one log line for
\* the slot; no exception leaves process_student_data; the loop goes on to
\* the next slot or to the end of the student, and the returned table has a
\* result for every input row.
C14_SlotErrorIsLoggedAndSkipped ==
    [][ rev = "test" =>
          /\ (pc = "slot" /\ NoDescriptionFor(grade_mapping, df_columns, row, discipline_num)) =>
                /\ student_results' = student_results
                /\ processed_pairs' = processed_pairs
                /\ Len(processing_log') = Len(processing_log) + 1
                /\ SubSeq(processing_log', 1, Len(processing_log)) = processing_log
                /\ processing_log'[Len(processing_log')].num = discipline_num
                /\ processing_log'[Len(processing_log')].kind \in {"error", "no_text"}
                /\ results' = results
                /\ IF discipline_num < 3
                   THEN pc' = "slot" /\ discipline_num' = discipline_num + 1
                   ELSE pc' = "join"
          /\ pc \in {"student", "slot", "join"} =>
                /\ error' = NoError
                /\ pc' \in {"student", "slot", "join", "done"}
          /\ (pc = "student" /\ pc' = "done") =>
                /\ Len(results) = n_students
                /\ Len(df_result'.rows) = n_students
                /\ \A i \in 1..n_students :
                      df_result'.rows[i][FinalResultCol] = results[i] ]_vars

\* C14 witness: slot 1 of the first of two students had no description for its
\* grade and was logged as an error, a later slot of that student still gave
\* an entry, and both students are in the returned table.
C14_Witness ==
    /\ rev = "test"
    /\ pc = "done"
    /\ n_students = 2
    /\ Len(df_result.rows) = 2
    /\ NoDescriptionFor(grade_mapping, df_columns, df[1], 1)
    /\ \E k \in 1..Len(processing_log) : processing_log[k] = Line("error", 1, <<>>)
    /\ results[1] # <<>>

\* process_student_data has been started in this run: it is running, or it
\* has left a row, a log line or a returned table.
Matching ==
    \/ pc \in {"student", "slot", "join"}
    \/ df # <<>>
    \/ results # <<>>
    \/ processing_log # <<>>
    \/ df_result # NoTable

\* C15: in every run of main(), process_student_data is started only after
\* load_reference_data has consumed every reference row and returned without
\* an exception, with both uploads present; when an upload is missing or the
\* load raised, no student is matched and no result row is produced.
C15_IndexBuiltBeforeMatching ==
    /\ Matching =>
          /\ excel_file /\ skills_file
          /\ row_i = Len(skills_df)
          /\ error = NoError
          /\ pc # "failed"
    /\ (~(excel_file /\ skills_file) \/ pc = "failed" \/ error # NoError) => ~Matching
    /\ pc = "load" => ~Matching

\* C15 witness: a three-row reference table has been consumed whole and a
\* slot of the second student is being matched.
C15_Witness ==
    /\ pc = "slot"
    /\ Len(skills_df) = 3
    /\ row_i = 3
    /\ DOMAIN grade_mapping # {}
    /\ Len(results) = 1

\* The name the row holds for slot n: its short display name, capitalised,
\* when the row has one, and otherwise its discipline name.
HeldLabel(cols, r, n) ==
    IF ShortNameCol(n) \in cols /\ ~Blank(r[ShortNameCol(n)])
    THEN Capitalize(Strip(r[ShortNameCol(n)]))
    ELSE SlotDiscipline(r, n)

\* C16 (as claimed): in streamlit_app.py every entry a slot emits is
\* "<label>:\n<description>" where the label is the slot's short display name
\* (capitalised) when the row has one and otherwise the discipline name; with
\* the short-name column present and the student's cell empty, the label is
\* the discipline name.
C16_LabelIsHeldByRow ==
    [][ ( /\ rev = "streamlit_app"
          /\ pc = "slot"
          /\ student_results' # student_results ) =>
          student_results' =
              Append(student_results,
                     HeldLabel(df_columns, row, discipline_num) \o <<":", "\n">>
                        \o Str(SlotText(rev, grade_mapping, df_columns, row, discipline_num))) ]_vars

====
